---- MODULE Spec2Model ----
(***************************************************************************)
(* State-machine model of src/app.py: a Streamlit script over a Google     *)
(* Sheets worksheet.  Every user interaction reruns the script from the    *)
(* top: the input tab (form handler), the analysis tab, the history tab.   *)
(*                                                                         *)
(* Text is a sequence of characters; a character is a one-element token    *)
(* (a kanji or kana is written as its reading, "jitsu", "shu", ...).  The  *)
(* worksheet holds text cells below its header row; load_data types them   *)
(* the way get_all_records does, and the analysis tab works on the typed   *)
(* frame the way the pandas calls do.                                      *)
(***************************************************************************)
EXTENDS Integers, Sequences, FiniteSets

\* sheet      the worksheet's data rows (text cells), below the header row
\* pc         the tab block the running script executes next
\* input_msg  what the submit handler of the input tab ended with
\* analysis   what the analysis tab computed and shows
\* history    what the history tab shows
\* calls      the store operations issued in the current run, in order
VARIABLES sheet, pc, input_msg, analysis, history, calls

vars == <<sheet, pc, input_msg, analysis, history, calls>>

(* ------------------------------ bounds -------------------------------- *)

\* most data rows the worksheet holds (submissions stop being made there)
MaxRows == 2
\* most styles the user picks in the comparison multiselect
MaxSelected == 2

(* --------------------------- text helpers ----------------------------- *)

Digits == <<"0", "1", "2", "3", "4", "5", "6", "7", "8", "9">>

DigitSet == {Digits[i] : i \in 1..10}

DigitVal(c) == (CHOOSE i \in 1..10 : Digits[i] = c) - 1

SetMin(S) == CHOOSE x \in S : \A y \in S : x <= y

SetMax(S) == CHOOSE x \in S : \A y \in S : y <= x

\* Python str.strip(): leading and trailing whitespace removed
Strip(s) ==
    LET keep == {i \in 1..Len(s) : s[i] # " "}
    IN  IF keep = {} THEN <<>> ELSE SubSeq(s, SetMin(keep), SetMax(keep))

RECURSIVE Split(_)
\* Python str.split(","): the pieces between commas, at least one piece
Split(s) ==
    LET commas == {i \in 1..Len(s) : s[i] = ","}
    IN  IF commas = {} THEN <<s>>
        ELSE LET i == SetMin(commas)
             IN  <<SubSeq(s, 1, i - 1)>> \o Split(SubSeq(s, i + 1, Len(s)))

RECURSIVE Join(_)
\* Python ",".join(list)
Join(l) ==
    IF l = <<>> THEN <<>>
    ELSE IF Len(l) = 1 THEN l[1]
    ELSE l[1] \o <<",">> \o Join(Tail(l))

RECURSIVE Str(_)
\* str(n) of a non-negative int: its decimal digits
Str(n) ==
    IF n < 10 THEN <<Digits[n + 1]>>
    ELSE Str(n \div 10) \o <<Digits[(n % 10) + 1]>>

RECURSIVE ParseInt(_)
\* int(s) of a non-empty digit string
ParseInt(s) ==
    IF Len(s) = 1 THEN DigitVal(s[1])
    ELSE 10 * ParseInt(SubSeq(s, 1, Len(s) - 1)) + DigitVal(s[Len(s)])

\* whether int(s) succeeds: digits, possibly inside surrounding whitespace
IsIntText(s) ==
    /\ Strip(s) # <<>>
    /\ \A i \in 1..Len(Strip(s)) : Strip(s)[i] \in DigitSet

\* re.search(pat, s) for a pattern without regex metacharacters
Search(pat, s) ==
    \E k \in 0..(Len(s) - Len(pat)) : SubSeq(s, k + 1, k + Len(pat)) = pat

(* ------------------------- numbers (floats) --------------------------- *)

RECURSIVE GCD(_, _)
GCD(a, b) == IF b = 0 THEN a ELSE GCD(b, a % b)

\* a float column value: NaN, or the exact quotient n/d in lowest terms;
\* d = 0 stands for the inf a float division by zero produces
NaN == [nan |-> TRUE, n |-> 0, d |-> 1]

Rat(n, d) ==
    IF d = 0 THEN [nan |-> FALSE, n |-> 1, d |-> 0]
    ELSE LET g == GCD(n, d)
         IN  IF g = 0 THEN [nan |-> FALSE, n |-> 0, d |-> 1]
             ELSE [nan |-> FALSE, n |-> n \div g, d |-> d \div g]

Num(n) == Rat(n, 1)

\* Series / Series, element-wise: NaN propagates
Div(a, b) ==
    IF a.nan \/ b.nan THEN NaN
    ELSE Rat(a.n * b.d, a.d * b.n)

RatAdd(a, b) == Rat(a.n * b.d + b.n * a.d, a.d * b.d)

RECURSIVE RatSum(_)
RatSum(l) == IF l = <<>> THEN Num(0) ELSE RatAdd(l[1], RatSum(Tail(l)))

\* Series.mean(): the mean of the values that are not NaN; NaN when none is
Mean(col) ==
    LET present == SelectSeq(col, LAMBDA v : ~v.nan)
    IN  IF present = <<>> THEN NaN
        ELSE Div(RatSum(present), Num(Len(present)))

(* ------------------------------ the store ----------------------------- *)

\* a cell as get_all_records returns it: an int, or the cell's text
NumCell(n) == [isnum |-> TRUE, n |-> n, s |-> <<>>]

StrCell(s) == [isnum |-> FALSE, n |-> 0, s |-> s]

\* gspread's numericise, applied by get_all_records to every cell: text that
\* int() accepts comes back as an int, any other text (the empty cell too)
\* as it is
numericise(text) ==
    IF IsIntText(text) THEN NumCell(ParseInt(Strip(text))) ELSE StrCell(text)

\* load_data(): every data row of the worksheet, as a frame (one record per
\* row).  The worksheet's first row is its header; sheet holds the rows
\* below it.
load_data(rows) ==
    [i \in 1..Len(rows) |->
        [date  |-> rows[i].date,
         name  |-> rows[i].name,
         dept  |-> rows[i].dept,
         score |-> numericise(rows[i].score),
         time  |-> numericise(rows[i].time),
         style |-> numericise(rows[i].style)]]

\* an insert above the first data row instead of an append
save_data_insert_first(rows, new_row) == <<new_row>> \o rows

\* save_data(new_row): sheet.append_row(new_row) adds the row after the last
save_data(rows, new_row) == Append(rows, new_row)

(* ----------------------------- constants ------------------------------ *)

DEPARTMENTS ==
    <<"JohoKogakuka", "JidoshaKogakuka", "DenkiEnergyKogakuka",
      "EizoOnkyoGakka", "KaguCraftGakka">>

DEFAULT_STYLES ==
    << <<"kyo", "ka", "sho", "chu", "shin">>,
       <<"su", "ra", "i", "do", "ri", "yo">>,
       <<"jitsu", "shu", "a", "ri">>,
       <<"gu", "ru", "-", "pu", "wa", "-", "ku">>,
       <<"ka", "dai", "tei", "shutsu", "a", "ri">> >>

(* -------------------------- the analysis tab --------------------------- *)

\* whether a cell parses as a number
IsNumeric(cell) == cell.isnum \/ IsIntText(cell.s)

NumericValue(cell) ==
    IF cell.isnum THEN Num(cell.n) ELSE Num(ParseInt(Strip(cell.s)))

\* pd.to_numeric with its default errors='raise', whatever is passed
to_numeric_raise(col, errors) ==
    IF \E i \in DOMAIN col : ~IsNumeric(col[i])
    THEN [raised |-> TRUE, values |-> <<>>]
    ELSE [raised |-> FALSE, values |-> [i \in DOMAIN col |-> NumericValue(col[i])]]

\* pd.to_numeric(col, errors=...): with errors='coerce' a cell that does not
\* parse becomes NaN; with errors='raise' the call raises on the first such cell
to_numeric(col, errors) ==
    IF errors = "raise" /\ \E i \in DOMAIN col : ~IsNumeric(col[i])
    THEN [raised |-> TRUE, values |-> <<>>]
    ELSE [raised |-> FALSE,
          values |-> [i \in DOMAIN col |->
                         IF IsNumeric(col[i]) THEN NumericValue(col[i]) ELSE NaN]]

\* Series.replace(old, new) on a float column
replace(col, old, new) ==
    [i \in DOMAIN col |->
        IF ~col[i].nan /\ col[i] = Num(old) THEN Num(new) ELSE col[i]]

\* the division without the zero guard
efficiency_unguarded(score, time) ==
    [i \in DOMAIN score |-> Div(score[i], time[i])]

\* df['score'] / df['time'].replace(0, 1)
efficiency(score, time) ==
    [i \in DOMAIN score |-> Div(score[i], replace(time, 0, 1)[i])]

\* Series.astype(str): str() of every cell
astype_str(col) ==
    [i \in DOMAIN col |-> IF col[i].isnum THEN Str(col[i].n) ELSE col[i].s]

\* the pieces as split, neither stripped nor filtered
unstripped_styles(s) == {s[k] : k \in DOMAIN s}

\* [x.strip() for x in s if x.strip()]
stripped_styles(s) ==
    {Strip(s[k]) : k \in {j \in DOMAIN s : Strip(s[j]) # <<>>}}

\* the set built from df[style].astype(str).str.split(",")
all_styles_in_data(col) ==
    UNION {stripped_styles(Split(astype_str(col)[i])) : i \in DOMAIN col}

\* Series.str.contains(style, na=False): the .str accessor raises on a column
\* that is not of object dtype (every cell an int); in an object column a
\* cell that is not text gives NaN, which na=False turns into False
str_contains(col, style) ==
    IF col # <<>> /\ \A i \in DOMAIN col : col[i].isnum
    THEN [raised |-> TRUE, mask |-> {}]
    ELSE [raised |-> FALSE,
          mask |-> {i \in DOMAIN col : ~col[i].isnum /\ Search(style, col[i].s)}]

Column(df, f) == [i \in DOMAIN df |-> df[i][f]]

\* df[style_mask][f]: the column f of the rows in the mask, in row order
SubsetColumn(col, mask) ==
    LET Pick(i) == i \in mask
        idx == SelectSeq([i \in DOMAIN col |-> i], Pick)
    IN  [k \in DOMAIN idx |-> col[idx[k]]]

\* a row appended for every style, whatever its subset
keep_subset_always(mask) == TRUE

\* whether the loop body appends a row for a subset: if not subset.empty
keep_subset(mask) == mask # {}

RECURSIVE comparison_loop(_, _, _, _, _)
\* for style in selected_styles_comp: ... comparison_list.append({...})
comparison_loop(df, styles, k, masks, list) ==
    IF k > Len(styles) THEN [raised |-> FALSE, masks |-> masks, list |-> list]
    ELSE LET style == styles[k]
             m     == str_contains(Column(df, "style"), style)
         IN  IF m.raised THEN [raised |-> TRUE, masks |-> masks, list |-> list]
             ELSE comparison_loop(df, styles, k + 1, Append(masks, m.mask),
                    IF keep_subset(m.mask)
                    THEN Append(list,
                           [style      |-> style,
                            mean_score |-> Mean(SubsetColumn(Column(df, "score"), m.mask)),
                            mean_time  |-> Mean(SubsetColumn(Column(df, "time"), m.mask)),
                            mean_eff   |-> Mean(SubsetColumn(Column(df, "eff"), m.mask))])
                    ELSE list)

NoAnalysis ==
    [view |-> "none", exc |-> "", df |-> <<>>, all_styles_in_data |-> {},
     selected_styles_comp |-> <<>>, style_masks |-> <<>>, comparison_list |-> <<>>]

\* except Exception as e: st.error(...): the tab shows the error, naming
\* the call that raised
AnalysisError(shown, exc) == [shown EXCEPT !.view = "error", !.exc = exc]

\* the frame after the cleaning lines: score and time numeric, eff added
clean(raw) ==
    LET score == to_numeric(Column(raw, "score"), "coerce")
        time  == to_numeric(Column(raw, "time"), "coerce")
    IN  IF score.raised \/ time.raised THEN [raised |-> TRUE, df |-> <<>>]
        ELSE [raised |-> FALSE,
              df |-> [i \in DOMAIN raw |->
                        [dept  |-> raw[i].dept,
                         score |-> score.values[i],
                         time  |-> time.values[i],
                         eff   |-> efficiency(score.values, time.values)[i],
                         style |-> raw[i].style]]]

\* the body of `with tab_analysis:`: what the tab shows, for the worksheet
\* rows, whether the load succeeds, and the multiselect's value
tab_analysis(rows, load_ok, selected) ==
    IF ~load_ok THEN AnalysisError(NoAnalysis, "load_data")
    ELSE LET raw == load_data(rows)
         IN  IF raw = <<>> THEN [NoAnalysis EXCEPT !.view = "info"]
             ELSE LET c == clean(raw)
                  IN  IF c.raised THEN AnalysisError(NoAnalysis, "to_numeric")
                      ELSE LET all  == all_styles_in_data(Column(c.df, "style"))
                               base == [NoAnalysis EXCEPT !.df = c.df,
                                           !.all_styles_in_data = all,
                                           !.selected_styles_comp = selected]
                           IN  IF selected = <<>> THEN [base EXCEPT !.view = "options"]
                               ELSE LET r == comparison_loop(c.df, selected, 1, <<>>, <<>>)
                                        done == [base EXCEPT !.style_masks = r.masks,
                                                             !.comparison_list = r.list]
                                    IN  IF r.raised THEN AnalysisError(done, "str_accessor")
                                        \* st.columns(len(comparison_list)) raises on 0
                                        ELSE IF r.list = <<>>
                                        THEN AnalysisError(done, "st_columns")
                                        ELSE [done EXCEPT !.view = "comparison"]

(* --------------------------- inputs (bounded) -------------------------- *)

\* st.date_input, st.text_input(name), st.selectbox(DEPARTMENTS),
\* st.number_input(0..100), st.number_input(0..1000): the values tried
DateChoices == {"2024-01-01"}

NameChoices == {"", "Sato"}

DeptChoices == {DEPARTMENTS[1]}

ScoreChoices == {70}

TimeChoices == {0, 60}

\* the checkboxes ticked (indices into DEFAULT_STYLES)
CheckedChoices == {{}, {3}}

\* the free-text style: nothing, a style whose text is part of
\* DEFAULT_STYLES[3], or a style written in digits
CustomChoices == {<<>>, <<"jitsu", "shu">>, <<"5">>}

\* rows a worksheet may hold before the app is opened, entered by hand:
\* a score that is not a number with padded and empty style pieces, and a
\* blank study time with a style cell that reads as a number
PriorRows ==
    {[date |-> "2024-01-01", name |-> "Abe", dept |-> DEPARTMENTS[2],
      score |-> <<"x">>, time |-> <<"6", "0">>,
      style |-> <<" ", "jitsu", "shu", " ", ",", " ", ",">>],
     [date |-> "2024-01-01", name |-> "Ito", dept |-> DEPARTMENTS[2],
      score |-> <<"7", "0">>, time |-> <<>>,
      style |-> <<"5">>]}

RECURSIVE SeqsUpTo(_, _)
\* the sequences over S of length at most n
SeqsUpTo(S, n) ==
    IF n = 0 THEN {<<>>}
    ELSE LET shorter == SeqsUpTo(S, n - 1)
         IN  shorter \cup {Append(q, x) : q \in shorter, x \in S}

\* what st.multiselect can return: options in the order picked, none twice
multiselect(options) ==
    {q \in SeqsUpTo(options, MaxSelected) :
        \A i, j \in DOMAIN q : i # j => q[i] # q[j]}

\* the options the analysis tab's multiselect offers for the worksheet rows
offered(rows) ==
    IF rows = <<>> THEN {}
    ELSE all_styles_in_data(Column(clean(load_data(rows)).df, "style"))

(* ------------------------------ the script ---------------------------- *)

Init ==
    /\ sheet \in SeqsUpTo(PriorRows, MaxRows)
    /\ pc = "tab_input"
    /\ input_msg = "none"
    /\ analysis = NoAnalysis
    /\ history = "none"
    /\ calls = <<>>

\* selected_styles: the ticked DEFAULT_STYLES in order, then custom_style
selected_styles(checked, custom_style) ==
    LET Ticked(i) == i \in checked
        idx == SelectSeq([i \in DOMAIN DEFAULT_STYLES |-> i], Ticked)
    IN  [k \in DOMAIN idx |-> DEFAULT_STYLES[idx[k]]]
        \o (IF custom_style # <<>> THEN <<custom_style>> ELSE <<>>)

\* new_row = [str(date), name, dept, score, study_time, style_str], as the
\* worksheet stores it
new_row(date, name, dept, score, study_time, checked, custom_style) ==
    [date |-> date, name |-> name, dept |-> dept,
     score |-> Str(score), time |-> Str(study_time),
     style |-> Join(selected_styles(checked, custom_style))]

\* a handler that catches the exception of save_data and goes on
submit_handler_swallow(rows, name, row, append_ok) ==
    IF name = "" THEN [msg |-> "error", rows |-> rows, calls |-> <<>>]
    ELSE [msg |-> "success",
          rows |-> IF append_ok THEN Append(rows, row) ELSE rows,
          calls |-> <<[op |-> "append", by |-> "tab_input", ok |-> append_ok]>>]

\* if submitted: the name check, then save_data (which raises when the
\* append fails), then st.success.  The message shown, the worksheet rows
\* afterwards, and the store operations issued.
submit_handler(rows, name, row, append_ok) ==
    IF name = "" THEN [msg |-> "error", rows |-> rows, calls |-> <<>>]
    ELSE LET call == [op |-> "append", by |-> "tab_input", ok |-> append_ok]
         IN  IF ~append_ok
             THEN [msg |-> "exception", rows |-> rows, calls |-> <<call>>]
             ELSE [msg |-> "success", rows |-> save_data(rows, row),
                   calls |-> <<call>>]

\* A rerun starts: the body of `with tab_input:`.  An exception save_data
\* raises is not caught: the run ends there and the tabs below stay empty.
TabInput(submitted, date, name, dept, score, study_time, checked, custom_style, append_ok) ==
    /\ pc = "tab_input"
    /\ submitted => Len(sheet) < MaxRows
    /\ LET r == IF submitted
                THEN submit_handler(sheet, name,
                        new_row(date, name, dept, score, study_time, checked,
                                custom_style), append_ok)
                ELSE [msg |-> "none", rows |-> sheet, calls |-> <<>>]
       IN  /\ input_msg' = r.msg
           /\ sheet' = r.rows
           /\ calls' = r.calls
           /\ pc' = IF r.msg = "exception" THEN "tab_input" ELSE "tab_analysis"
    /\ analysis' = NoAnalysis
    /\ history' = "none"

\* the body of `with tab_analysis:`
TabAnalysis(load_ok, selected) ==
    /\ pc = "tab_analysis"
    /\ load_ok \/ selected = <<>>
    /\ analysis' = tab_analysis(sheet, load_ok, selected)
    /\ calls' = Append(calls, [op |-> "load", by |-> "tab_analysis", ok |-> load_ok])
    /\ pc' = "tab_history"
    /\ UNCHANGED <<sheet, input_msg, history>>

\* what the history tab shows: the frame, or the message of its except
tab_history(load_ok) == IF load_ok THEN "dataframe" ELSE "failed"

\* the body of `with tab_history:`
TabHistory(load_ok) ==
    /\ pc = "tab_history"
    /\ history' = tab_history(load_ok)
    /\ calls' = Append(calls, [op |-> "load", by |-> "tab_history", ok |-> load_ok])
    /\ pc' = "tab_input"
    /\ UNCHANGED <<sheet, input_msg, analysis>>

\* a rerun in which the form was not submitted: a widget of another tab changed
Rerun ==
    TabInput(FALSE, "2024-01-01", "", DEPARTMENTS[1], 70, 60, {}, <<>>, TRUE)

\* a rerun in which the form was submitted with these field values
Submit(date, name, dept, score, study_time, checked, custom_style, append_ok) ==
    TabInput(TRUE, date, name, dept, score, study_time, checked, custom_style,
             append_ok)

Next ==
    \/ Rerun
    \/ \E append_ok \in BOOLEAN, date \in DateChoices,
          name \in NameChoices, dept \in DeptChoices, score \in ScoreChoices,
          study_time \in TimeChoices, checked \in CheckedChoices,
          custom_style \in CustomChoices :
            Submit(date, name, dept, score, study_time, checked, custom_style,
                   append_ok)
    \/ \E load_ok \in BOOLEAN, selected \in multiselect(offered(sheet)) :
            TabAnalysis(load_ok, selected)
    \/ \E load_ok \in BOOLEAN : TabHistory(load_ok)

Spec == Init /\ [][Next]_vars

(* ------------------------------ properties ---------------------------- *)

\* A record's styleTags as the specification defines them: the trimmed,
\* non-empty comma-separated pieces of a text cell; empty for any other cell
styleTags(cell) ==
    IF cell.isnum THEN {}
    ELSE LET pieces == Split(cell.s)
         IN  {Strip(pieces[k]) : k \in {j \in DOMAIN pieces : Strip(pieces[j]) # <<>>}}

\* the analysis tab loaded the worksheet in this run
AnalysisLoaded ==
    \E k \in DOMAIN calls : calls[k].by = "tab_analysis" /\ calls[k].ok

\* the rows some selected style's subset holds
AnalysedRows == UNION {analysis.style_masks[k] : k \in DOMAIN analysis.style_masks}

SelectedSet ==
    {analysis.selected_styles_comp[k] : k \in DOMAIN analysis.selected_styles_comp}

\* C1: the sub-collection aggregated for a selected tag is exactly the set of
\* records whose parsed styleTags contain that tag (equality, not substring).
C1_SubsetIsExactTagMembership ==
    \A k \in DOMAIN analysis.style_masks :
        analysis.style_masks[k] =
            {i \in DOMAIN analysis.df :
                analysis.selected_styles_comp[k] \in styleTags(analysis.df[i].style)}

\* C2: a record's efficiency is score / studyMinutes when studyMinutes > 0,
\* score / 1 when studyMinutes = 0, missing when score or studyMinutes is
\* missing; no division by zero occurs.
C2_EfficiencyZeroGuard ==
    \A i \in DOMAIN analysis.df :
        LET r == analysis.df[i]
        IN  IF r.score.nan \/ r.time.nan THEN r.eff.nan
            ELSE /\ ~r.eff.nan
                 /\ r.eff.d # 0
                 /\ IF r.time.n = 0
                    THEN r.eff.n * r.score.d = r.score.n * r.eff.d
                    ELSE r.eff.n * r.time.n * r.score.d
                            = r.score.n * r.time.d * r.eff.d

\* a zero-time record with a score, and a record with a field missing, analysed
C2_Witness ==
    /\ \E i \in DOMAIN analysis.df :
          /\ ~analysis.df[i].score.nan /\ ~analysis.df[i].time.nan
          /\ analysis.df[i].time.n = 0 /\ analysis.df[i].eff = analysis.df[i].score
    /\ \E i \in DOMAIN analysis.df : analysis.df[i].eff.nan

\* C3: every step leaves the stored rows unchanged or adds exactly one row at
\* the end; only the submit handler's successful append changes them, and a
\* run issues at most one append.
C3_AppendOnly ==
    [][/\ \/ sheet' = sheet
          \/ /\ Len(sheet') = Len(sheet) + 1
             /\ SubSeq(sheet', 1, Len(sheet)) = sheet
             /\ pc = "tab_input"
             /\ input_msg' = "success"
       /\ Cardinality({k \in DOMAIN calls' : calls'[k].op = "append"}) <= 1]_vars

\* a submitted row is stored after an earlier one and the later tabs have run
C3_Witness ==
    /\ input_msg = "success"
    /\ Len(sheet) >= 2
    /\ pc = "tab_input"
    /\ history = "dataframe"

\* C4: every tag of the distinct-tag universe is non-empty and has no leading
\* or trailing whitespace (nor a comma).
C4_TagsTrimmedNonEmpty ==
    \A tag \in analysis.all_styles_in_data :
        /\ tag # <<>>
        /\ tag[1] # " "
        /\ tag[Len(tag)] # " "
        /\ \A k \in DOMAIN tag : tag[k] # ","

\* the universe was computed from a style cell with padded and empty pieces
C4_Witness ==
    /\ analysis.all_styles_in_data # {}
    /\ \E i \in DOMAIN sheet :
          /\ \E k \in DOMAIN sheet[i].style : sheet[i].style[k] = " "
          /\ \E k \in DOMAIN Split(sheet[i].style) : Strip(Split(sheet[i].style)[k]) = <<>>

\* C5: a row whose style cell is not text (a number) or is empty has no
\* styleTags: it adds no tag to the distinct-tag universe and is in no
\* selected tag's subset.
C5_NonTextStyleCellHasNoTags ==
    LET df == analysis.df
        nontext == {i \in DOMAIN df : df[i].style.isnum \/ df[i].style.s = <<>>}
    IN  /\ analysis.all_styles_in_data =
              UNION {styleTags(df[i].style) : i \in DOMAIN df \ nontext}
        /\ AnalysedRows \cap nontext = {}

\* C6: the per-tag summary has a row for a selected tag if and only if the
\* tag's subset of records is not empty; a tag whose subset is empty has no row.
C6_RowIffSubsetNonEmpty ==
    Len(analysis.style_masks) = Len(analysis.selected_styles_comp) =>
        LET sel  == analysis.selected_styles_comp
            list == analysis.comparison_list
        IN  /\ \A k \in DOMAIN sel :
                  (\E e \in DOMAIN list : list[e].style = sel[k])
                      <=> analysis.style_masks[k] # {}
            /\ Len(list) = Cardinality({k \in DOMAIN sel : analysis.style_masks[k] # {}})

\* a summary shown with one selected tag omitted and another present
C6_Witness ==
    /\ analysis.view = "comparison"
    /\ \E k \in DOMAIN analysis.style_masks : analysis.style_masks[k] = {}
    /\ \E k \in DOMAIN analysis.style_masks : analysis.style_masks[k] # {}

\* C7: a failed store operation ends in an explicit failure: after a failed
\* append no success is reported and the run ends; a failed load shows the
\* tab's error, never "no data" or statistics; no operation is retried.
C7_StoreFailureSurfaces ==
    /\ \A k \in DOMAIN calls :
          ~calls[k].ok =>
              /\ calls[k].by = "tab_input" =>
                    /\ input_msg = "exception"
                    /\ k = Len(calls)
                    /\ analysis.view = "none" /\ history = "none"
              /\ calls[k].by = "tab_analysis" =>
                    /\ analysis.view = "error"
                    /\ analysis.comparison_list = <<>>
              /\ calls[k].by = "tab_history" => history = "failed"
    /\ \A j, k \in DOMAIN calls : j # k => calls[j].by # calls[k].by

\* a run in which the loads of both the analysis and the history tab failed
C7_Witness ==
    /\ \E k \in DOMAIN calls : calls[k].by = "tab_analysis" /\ ~calls[k].ok
    /\ \E k \in DOMAIN calls : calls[k].by = "tab_history" /\ ~calls[k].ok
    /\ analysis.view = "error"
    /\ history = "failed"

\* a cell of digits only
WellFormed(text) == text # <<>> /\ \A k \in DOMAIN text : text[k] \in DigitSet

WellFormedRow(row) == WellFormed(row.score) /\ WellFormed(row.time)

\* the value a numeric field normalizes to: its number, or missing
FieldValue(text) ==
    IF WellFormed(text) THEN [nan |-> FALSE, n |-> ParseInt(text), d |-> 1] ELSE NaN

\* C8: normalization never raises and is per row: a malformed score or time
\* is missing for that record only, the pass is not aborted by it, and every
\* other row normalizes as it does in the batch without the malformed rows.
C8_NormalizationTotalPerRow ==
    (AnalysisLoaded /\ sheet # <<>>) =>
        LET df   == analysis.df
            Good(i) == WellFormedRow(sheet[i])
            good == SelectSeq([i \in DOMAIN sheet |-> i], Good)
            sub  == clean(load_data(SelectSeq(sheet, WellFormedRow)))
        IN  /\ analysis.exc # "to_numeric"
            /\ Len(df) = Len(sheet)
            /\ \A i \in DOMAIN df :
                  /\ df[i].score = FieldValue(sheet[i].score)
                  /\ df[i].time = FieldValue(sheet[i].time)
            /\ ~sub.raised
            /\ Len(sub.df) = Len(good)
            /\ \A j \in DOMAIN good :
                  /\ sub.df[j].score = df[good[j]].score
                  /\ sub.df[j].time = df[good[j]].time
                  /\ sub.df[j].eff = df[good[j]].eff

\* a batch with a malformed row and a well-formed one, analysed to the end
C8_Witness ==
    /\ analysis.view = "comparison"
    /\ \E i \in DOMAIN sheet : ~WellFormed(sheet[i].score)
    /\ \E i \in DOMAIN sheet : WellFormedRow(sheet[i])

\* C9: the records selected for analysis are those with department in
\* selectedDepartments and (selectedTags empty or styleTags meeting
\* selectedTags).  The tab takes no department selection, so the statement
\* is read for whichever set of departments fits best.
C9_DepartmentAndTagFilter ==
    analysis.view \in {"options", "comparison"} =>
        \E selectedDepartments \in SUBSET {DEPARTMENTS[d] : d \in DOMAIN DEPARTMENTS} :
            AnalysedRows =
                {i \in DOMAIN analysis.df :
                    /\ analysis.df[i].dept \in selectedDepartments
                    /\ \/ SelectedSet = {}
                       \/ styleTags(analysis.df[i].style) \cap SelectedSet # {}}

\* C10: every offered tag matches a record, so a non-empty selection of
\* offered tags always yields a per-tag row and never the analysis error.
C10_OfferedSelectionNeverErrors ==
    analysis.selected_styles_comp # <<>> =>
        /\ analysis.view = "comparison"
        /\ \A k \in DOMAIN analysis.selected_styles_comp :
              /\ k \in DOMAIN analysis.style_masks
              /\ analysis.style_masks[k] # {}

====
